---- MODULE Spec2Model ----
(***************************************************************************)
(* A model of the two ETL pipelines of this repository:                    *)
(*   Mailchimp_ETL_Pipe/main.py  (class MailchimpETL)                       *)
(*   ga_etl/main.py              (class GoogleAnalyticsETL)                 *)
(*                                                                         *)
(* Three specifications share the variables:                               *)
(*   Spec           one run of run_etl of either pipeline, request by      *)
(*                  request, against a remote that answers each GET with   *)
(*                  any status;                                            *)
(*   SpecTransform  MailchimpETL.transform_data applied to every table of  *)
(*                  a bounded input domain;                                *)
(*   SpecLoad       load_data of either pipeline applied to every mapping  *)
(*                  of a bounded domain of tables.                         *)
(*                                                                         *)
(* Durations are in milliseconds.  A float is an exact rational, NaN or    *)
(* +inf (the values the modelled arithmetic can produce on non-negative    *)
(* inputs).  pandas' missing value (None / NaN / NaT in a column) is the   *)
(* single value NA; a column that may hold NA holds tagged values (Str,    *)
(* IntV, floats, timestamps).                                              *)
(***************************************************************************)
EXTENDS Integers, Sequences, FiniteSets, TLC

VARIABLES
    pc,            \* position of the modelled call
    args,          \* the arguments of the entry point
    remote,        \* what the vendor holds (numbers of lists and campaigns)
    lists_data,    \* run_etl: rows returned by extract_lists
    campaigns_data,\* extract_campaigns: rows accumulated so far
    response,      \* extract_campaigns: the campaigns of the list response
    list_ids,      \* run_etl: the list ids whose members are extracted
    li,            \* run_etl: index in list_ids of the list being extracted
    members_data,  \* extract_members: rows accumulated so far
    offset,        \* extract_members: offset of the next page
    all_members_data, \* run_etl: member rows of all lists
    dataframes,    \* run_etl / load_data: table name -> DataFrame
    trace,         \* every GET issued and every sleep taken, in order
    lastCall,      \* the last _make_request call: its answers and outcome
    served,        \* the pages the remote served to the running extract_members
    callStart,     \* length of trace when the running extractor was called
    calls,         \* the extractor calls that returned: events, rows, pages served
    extractError,  \* an extraction request has failed
    loadCalls,     \* number of load_data invocations
    files,         \* artifacts written under output/
    result,        \* what the entry point returned or raised
    data_type,     \* transform_data: its data_type argument
    raw_data,      \* transform_data: its raw_data argument
    df,            \* transform_data: the DataFrame it returned
    log            \* what transform_data has logged: level and data type, in order

vars == << pc, args, remote, lists_data, campaigns_data, response, list_ids, li,
           members_data, offset, all_members_data, dataframes, trace, lastCall,
           served, callStart, calls, extractError, loadCalls, files, result,
           data_type, raw_data, df, log >>

---------------------------------------------------------------------------
(* Bounds of the model *)

MaxLists == 4          \* lists the remote holds, at most
MaxCampaigns == 2      \* campaigns the remote holds, at most
MaxPages == 3          \* non-empty member pages the remote serves per list, at most
MaxAttempts == 2       \* GETs of one _make_request call the remote answers, at most
MaxRows == 2           \* rows of a table given to transform_data / load_data
MaxGARows == 2         \* rows of an analytics report
MaxBeyond == 1         \* entities the source holds beyond one full page, at most

(* Program constants *)

PAGE_COUNT == 1000         \* count = 1000
RATE_LIMIT_SLEEP == 60000  \* time.sleep(60)
DELAY_SLEEP == 100         \* time.sleep(0.1)
DEMO_LISTS == 3            \* lists_data[:3]
SHEET_NAME_LIMIT == 31     \* [:31]
TOP_COUNTRIES == 5         \* head(5)

---------------------------------------------------------------------------
(* Values *)

NA == [k |-> "na"]
NaN == NA
Inf == [k |-> "inf"]

RECURSIVE GCD(_, _)
GCD(a, b) == IF b = 0 THEN a ELSE GCD(b, a % b)

\* the rational n/d (n >= 0, d > 0), in lowest terms
Rat(n, d) == LET g == GCD(n, d) IN [k |-> "num", n |-> n \div g, d |-> d \div g]
Int2F(i) == Rat(i, 1)
IsNum(x) == x.k = "num"
\* a string and an integer held in a column that may also hold NA
Str(s) == [k |-> "str", s |-> s]
IntV(i) == [k |-> "int", v |-> i]
\* pd.isna
isna(x) == x.k = "na"

\* float addition, multiplication and true division as numpy computes them on
\* non-negative operands: x/0 is inf for x > 0 and NaN for x = 0
FAdd(x, y) ==
    IF isna(x) \/ isna(y) THEN NaN
    ELSE IF x = Inf \/ y = Inf THEN Inf
    ELSE Rat(x.n * y.d + y.n * x.d, x.d * y.d)
FMul(x, y) ==
    IF isna(x) \/ isna(y) THEN NaN
    ELSE IF x = Inf \/ y = Inf
         THEN (IF (IsNum(x) /\ x.n = 0) \/ (IsNum(y) /\ y.n = 0) THEN NaN ELSE Inf)
    ELSE Rat(x.n * y.n, x.d * y.d)
FDiv(x, y) ==
    IF isna(x) \/ isna(y) THEN NaN
    ELSE IF x = Inf THEN (IF y = Inf THEN NaN ELSE Inf)
    ELSE IF y = Inf THEN Int2F(0)
    ELSE IF y.n = 0 THEN (IF x.n = 0 THEN NaN ELSE Inf)
    ELSE Rat(x.n * y.d, x.d * y.n)
\* x < y and x <= y on floats; every comparison with NaN is false
FLess(x, y) ==
    IF isna(x) \/ isna(y) THEN FALSE
    ELSE IF x = Inf THEN FALSE
    ELSE IF y = Inf THEN TRUE
    ELSE x.n * y.d < y.n * x.d
FLeq(x, y) ==
    IF isna(x) \/ isna(y) THEN FALSE
    ELSE x = y \/ FLess(x, y)

\* Series.fillna(value): a missing entry takes the value, any other entry stays
fillna(x, value) == IF isna(x) THEN value ELSE x

---------------------------------------------------------------------------
(* DataFrames: the set of column names and the sequence of rows *)

SetCol(row, col, v) ==
    [c \in DOMAIN row \cup {col} |-> IF c = col THEN v ELSE row[c]]

\* pd.DataFrame(raw_data): the columns are the keys of the row mappings
DataFrame(rows) ==
    [columns |-> UNION {DOMAIN rows[i] : i \in DOMAIN rows}, rows |-> rows]

\* df.empty: an axis of length 0
empty(d) == Len(d.rows) = 0 \/ d.columns = {}

\* df[col] = values, row by row
WithCol(d, col, values) ==
    [columns |-> d.columns \cup {col},
     rows |-> [i \in DOMAIN d.rows |-> SetCol(d.rows[i], col, values[i])]]

---------------------------------------------------------------------------
(* Timestamps.  An ISO-8601 string is [k |-> "iso", day, hour, tz]: the day  *)
(* and hour it names and whether it carries a timezone offset; the parsed   *)
(* value is [k |-> "ts", day, hour, tz].                                    *)

Now == [k |-> "ts", day |-> 10, hour |-> 12, tz |-> FALSE]

\* pd.to_datetime on one value: a string is parsed, a timestamp stays, None is NaT
to_datetime(v) ==
    IF isna(v) THEN NA ELSE [k |-> "ts", day |-> v.day, hour |-> v.hour, tz |-> v.tz]

\* df[col].dt.tz is not None: the parsed column is timezone-aware
tz_aware(d, col) ==
    \E i \in DOMAIN d.rows : ~isna(d.rows[i][col]) /\ d.rows[i][col].tz

\* .dt.tz_localize(None) on one value: the offset is dropped
tz_localize_none(v) == IF isna(v) THEN NA ELSE [v EXCEPT !.tz = FALSE]

\* df[col] = pd.to_datetime(df[col])
parse_col(d, col) ==
    WithCol(d, col, [i \in DOMAIN d.rows |-> to_datetime(d.rows[i][col])])

\* if df[col].dt.tz is not None: df[col] = df[col].dt.tz_localize(None)
localize_col(d, col) ==
    IF tz_aware(d, col)
    THEN WithCol(d, col, [i \in DOMAIN d.rows |-> tz_localize_none(d.rows[i][col])])
    ELSE d

\* the conversion of a datetime column, when the table has the column
datetime_col(d, col) ==
    IF col \in d.columns THEN localize_col(parse_col(d, col), col) ELSE d

\* (datetime.now() - ts).days: whole days, rounded down
days_since(v) ==
    IF isna(v) THEN NA
    ELSE LET hours == (Now.day * 24 + Now.hour) - (v.day * 24 + v.hour)
         IN  IntV(hours \div 24)

---------------------------------------------------------------------------
(* MailchimpETL.transform_data *)

\* (df['unique_opens'] + df['unique_clicks']) / df['emails_sent'] * 100, then fillna(0)
engagement_rate(row) ==
    fillna(FMul(FDiv(Int2F(row.unique_opens + row.unique_clicks),
                     Int2F(row.emails_sent)),
                Int2F(100)),
           Int2F(0))

\* pd.cut(x, bins, labels) with the default right=True, include_lowest=False:
\* label i when bins[i] < x <= bins[i+1], missing when x is in no interval
cut(x, bins, labels) ==
    IF \E i \in DOMAIN labels : FLess(Int2F(bins[i]), x) /\ FLeq(x, Int2F(bins[i + 1]))
    THEN Str(labels[CHOOSE i \in DOMAIN labels :
                        FLess(Int2F(bins[i]), x) /\ FLeq(x, Int2F(bins[i + 1]))])
    ELSE NA

performance_category(row) ==
    cut(FMul(row.open_rate, Int2F(100)),
        <<0, 15, 25, 35, 100>>,
        <<"Low", "Medium", "High", "Excellent">>)

country_mapping ==
    [c \in {"UA", "RU", "US", "GB", "DE", "FR"} |->
        CASE c = "UA" -> "Ukraine"
          [] c = "RU" -> "Russia"
          [] c = "US" -> "United States"
          [] c = "GB" -> "United Kingdom"
          [] c = "DE" -> "Germany"
          [] c = "FR" -> "France"]

\* Series.map(dict) on one value: a value that is no key of the dict gives NaN
map(v, dict) == IF v.k = "str" /\ v.s \in DOMAIN dict THEN Str(dict[v.s]) ELSE NaN

\* a faulty variant: the unmapped codes are left missing
country_name_nofill(row) == map(row.country_code, country_mapping)

\* df['country_code'].map(country_mapping), then fillna(df['country_code'])
country_name(row) ==
    fillna(map(row.country_code, country_mapping), row.country_code)

\* a faulty variant: a rate the row already holds is scaled by 100 once more
unsubscribe_rate_rescaled(row) ==
    IF "unsubscribe_rate" \in DOMAIN row
    THEN FMul(row.unsubscribe_rate, Int2F(100))
    ELSE fillna(FMul(FDiv(Int2F(row.unsubscribe_count), Int2F(row.member_count)),
                     Int2F(100)),
                Int2F(0))

\* (df['unsubscribe_count'] / df['member_count']) * 100, then fillna(0)
unsubscribe_rate(row) ==
    fillna(FMul(FDiv(Int2F(row.unsubscribe_count), Int2F(row.member_count)),
                Int2F(100)),
           Int2F(0))

\* df['send_date'] = df['send_time'].dt.date
with_send_date(d) ==
    WithCol(d, "send_date",
            [i \in DOMAIN d.rows |->
                IF isna(d.rows[i].send_time) THEN NA ELSE IntV(d.rows[i].send_time.day)])

\* df['send_hour'] = df['send_time'].dt.hour
with_send_hour(d) ==
    WithCol(d, "send_hour",
            [i \in DOMAIN d.rows |->
                IF isna(d.rows[i].send_time) THEN NA ELSE IntV(d.rows[i].send_time.hour)])

\* the send_time block: the conversion and the two derived columns
send_time_cols(d) ==
    IF "send_time" \in d.columns
    THEN with_send_hour(with_send_date(datetime_col(d, "send_time")))
    ELSE d

with_engagement_rate(d) ==
    WithCol(d, "engagement_rate", [i \in DOMAIN d.rows |-> engagement_rate(d.rows[i])])

with_performance_category(d) ==
    WithCol(d, "performance_category",
            [i \in DOMAIN d.rows |-> performance_category(d.rows[i])])

transform_campaigns(d0) ==
    with_performance_category(with_engagement_rate(send_time_cols(d0)))

with_country_name(d) ==
    IF "country_code" \in d.columns
    THEN WithCol(d, "country_name", [i \in DOMAIN d.rows |-> country_name(d.rows[i])])
    ELSE d

with_days_since_signup(d) ==
    IF "timestamp_signup" \in d.columns
    THEN WithCol(d, "days_since_signup",
                 [i \in DOMAIN d.rows |-> days_since(d.rows[i].timestamp_signup)])
    ELSE d

transform_members(d0) ==
    with_days_since_signup(
        with_country_name(
            datetime_col(datetime_col(d0, "timestamp_signup"), "timestamp_opt")))

with_unsubscribe_rate(d) ==
    WithCol(d, "unsubscribe_rate", [i \in DOMAIN d.rows |-> unsubscribe_rate(d.rows[i])])

transform_lists(d0) ==
    with_unsubscribe_rate(datetime_col(d0, "date_created"))

\* the transformation of the data type; any other type is left as it is
transform_type(dtype, d0) ==
    CASE dtype = "campaigns" -> transform_campaigns(d0)
      [] dtype = "members" -> transform_members(d0)
      [] dtype = "lists" -> transform_lists(d0)
      [] OTHER -> d0

\* df['extracted_at'] = datetime.now()
with_extracted_at(d) ==
    WithCol(d, "extracted_at", [i \in DOMAIN d.rows |-> Now])

\* df['data_source'] = 'mailchimp'
with_data_source(d) ==
    WithCol(d, "data_source", [i \in DOMAIN d.rows |-> "mailchimp"])

\* a faulty variant: the frame shares the row mappings of raw_data, so that the
\* columns assigned to the frame appear in them
raw_data_shared(raw, d) == IF empty(d) THEN raw ELSE d.rows

\* raw_data once transform_data has returned d: pd.DataFrame(raw_data) copies the
\* values of the row mappings, and every assignment is to a column of the frame
raw_data_after(raw, d) == raw

\* a record of the log: its level and the data type it is about
Logged(level, dtype) == [level |-> level, dtype |-> dtype]

\* what transform_data(data_type, raw_data) logs: a warning for an empty
\* DataFrame, an info record otherwise
transform_log(dtype, raw) ==
    IF empty(DataFrame(raw)) THEN <<Logged("warning", dtype)>>
    ELSE <<Logged("info", dtype)>>

\* transform_data(data_type, raw_data): the DataFrame it returns
transform_data(dtype, raw) ==
    IF empty(DataFrame(raw)) THEN DataFrame(raw)
    ELSE with_data_source(with_extracted_at(transform_type(dtype, DataFrame(raw))))

---------------------------------------------------------------------------
(* The remote.  What it holds is fixed per run (remote.lists lists and       *)
(* remote.campaigns campaigns, with the field values below); how it answers *)
(* each GET (the status, and whether a list has a further page of members)  *)
(* is chosen per GET.                                                       *)

IsoTime == [k |-> "iso", day |-> 3, hour |-> 9, tz |-> TRUE]

EmptyDict == [none |-> TRUE]    \* {}: a mapping with none of the keys read
NoBody == [none |-> TRUE]
NoParams == [none |-> TRUE]

\* the number of members in the non-empty page at offset o: pages of different sizes
PageSize(o) == IF (o \div PAGE_COUNT) % 2 = 0 THEN 2 ELSE 1

RemoteList(i) ==
    [id |-> i,
     stats |-> [member_count |-> 4 * (i - 1), unsubscribe_count |-> 1],
     date_created |-> IsoTime]

RemoteCampaign(j) == [id |-> j, send_time |-> IsoTime]

\* the detail of an even campaign has no opens and clicks objects
RemoteCampaignDetail(j) ==
    IF j % 2 = 1
    THEN [emails_sent |-> 2,
          opens |-> [unique_opens |-> 1, open_rate |-> Rat(1, 4)],
          clicks |-> [unique_clicks |-> 1, click_rate |-> Rat(1, 10)]]
    ELSE [emails_sent |-> 0]

\* member j of the page at offset o; an even member has no location
RemoteMember(o, j) ==
    IF (o + j) % 2 = 1
    THEN [id |-> o + j, timestamp_signup |-> IsoTime, timestamp_opt |-> IsoTime,
          location |-> [country_code |-> Str("UA")]]
    ELSE [id |-> o + j, timestamp_signup |-> IsoTime, timestamp_opt |-> IsoTime]

MembersPage(o, size) == [j \in 1..size |-> RemoteMember(o, j)]

Request(endpoint, id, params) == [endpoint |-> endpoint, id |-> id, params |-> params]

\* the items of a listing the remote sends for a request without offset: the
\* first count of the total it holds
PageOf(total, count) == IF total < count THEN total ELSE count

\* the bodies the remote may send with a 200 to a GET of req
Bodies(req) ==
    CASE req.endpoint = "lists" ->
            {[lists |-> [i \in 1..PageOf(remote.lists, req.params.count) |->
                            RemoteList(i)]]}
      [] req.endpoint = "campaigns" ->
            {[campaigns |-> [j \in 1..PageOf(remote.campaigns, req.params.count) |->
                                RemoteCampaign(j)]]}
      [] req.endpoint = "campaigns/{id}" -> {RemoteCampaignDetail(req.id)}
      [] req.endpoint = "lists/{id}/members" ->
            {[members |-> MembersPage(req.params.offset, n)] :
                n \in {0} \cup (IF Len(served) < MaxPages
                                THEN {PageSize(req.params.offset)} ELSE {})}

\* an answer to one GET: a transport error (no response), or a status and a body
AnswersFor(req) ==
    {[net |-> "ok", status |-> 200, body |-> b] : b \in Bodies(req)}
    \cup {[net |-> "ok", status |-> 429, body |-> NoBody],
          [net |-> "ok", status |-> 500, body |-> NoBody],
          [net |-> "error", status |-> 0, body |-> NoBody]}

\* the remote's answers to the successive GETs of one call, should the call
\* repeat its GET that often: 429 to each but the last, at most MaxAttempts
AnswerSeqs(req) ==
    {a \in UNION {[1..n -> AnswersFor(req)] : n \in 1..MaxAttempts} :
        \A i \in DOMAIN a : (a[i].status = 429) <=> (i < Len(a))}

---------------------------------------------------------------------------
(* MailchimpETL._make_request *)

GetEvent(req) == [ev |-> "GET", req |-> req, ms |-> 0]
SleepEvent(ms) == [ev |-> "sleep", req |-> Request("", 0, NoParams), ms |-> ms]

\* response.raise_for_status(): HTTPError for a 4xx or 5xx status
raise_for_status(status) == 400 <= status /\ status < 600

\* _make_request(endpoint, params) against the answers the remote gives to its
\* GETs: whether it raised, the body it returned, and the GETs and sleeps it made
RECURSIVE _make_request(_, _)
_make_request(req, answers) ==
    LET a == Head(answers)
    IN  IF a.net = "error"
        THEN [raised |-> TRUE, body |-> NoBody, events |-> <<GetEvent(req)>>]
        ELSE IF raise_for_status(a.status)
        THEN [raised |-> TRUE, body |-> NoBody, events |-> <<GetEvent(req)>>]
        ELSE IF a.status = 429
        THEN LET r == _make_request(req, Tail(answers))
             IN  [r EXCEPT !.events =
                     <<GetEvent(req), SleepEvent(RATE_LIMIT_SLEEP)>> \o r.events]
        ELSE [raised |-> FALSE, body |-> a.body, events |-> <<GetEvent(req)>>]

\* the record kept of a call
Call(req, answers, r) ==
    [made |-> TRUE, req |-> req, answers |-> answers, raised |-> r.raised,
     body |-> r.body, events |-> r.events]

Get(dict, key, default) == IF key \in DOMAIN dict THEN dict[key] ELSE default

---------------------------------------------------------------------------
(* MailchimpETL.extract_lists, extract_campaigns, extract_members *)

\* the row extract_lists builds of one list
list_row(item) ==
    [list_id |-> item.id,
     member_count |-> item.stats.member_count,
     unsubscribe_count |-> item.stats.unsubscribe_count,
     date_created |-> item.date_created]

\* a faulty variant: extract_lists swallows the exception and returns no rows
extract_lists_swallow(call) ==
    IF call.raised THEN [raised |-> FALSE, value |-> <<>>]
    ELSE LET items == Get(call.body, "lists", <<>>)
         IN  [raised |-> FALSE, value |-> [i \in DOMAIN items |-> list_row(items[i])]]

\* extract_lists, given its _make_request call: raised, or the rows returned
extract_lists(call) ==
    IF call.raised THEN [raised |-> TRUE, value |-> <<>>]
    ELSE LET items == Get(call.body, "lists", <<>>)
         IN  [raised |-> FALSE, value |-> [i \in DOMAIN items |-> list_row(items[i])]]

\* params of the campaigns request
campaigns_params(since_date) ==
    IF since_date # ""
    THEN [count |-> PAGE_COUNT, status |-> "sent", since_send_time |-> since_date]
    ELSE [count |-> PAGE_COUNT, status |-> "sent"]

\* the row extract_campaigns builds of one campaign and its detail
campaign_row(campaign, stats) ==
    [campaign_id |-> campaign.id,
     send_time |-> Get(campaign, "send_time", NA),
     emails_sent |-> Get(stats, "emails_sent", 0),
     unique_opens |-> Get(Get(stats, "opens", EmptyDict), "unique_opens", 0),
     open_rate |-> Get(Get(stats, "opens", EmptyDict), "open_rate", Int2F(0)),
     unique_clicks |-> Get(Get(stats, "clicks", EmptyDict), "unique_clicks", 0),
     click_rate |-> Get(Get(stats, "clicks", EmptyDict), "click_rate", Int2F(0))]

\* params of a member page request
members_params(off, status) == [count |-> PAGE_COUNT, offset |-> off, status |-> status]

\* the row extract_members builds of one member
member_row(member, list_id) ==
    [member_id |-> member.id,
     list_id |-> list_id,
     timestamp_signup |-> Get(member, "timestamp_signup", NA),
     timestamp_opt |-> Get(member, "timestamp_opt", NA),
     country_code |-> Get(Get(member, "location", EmptyDict), "country_code", NA)]

\* members_data after the rows of one page are appended
append_page(data, members, list_id) ==
    data \o [j \in DOMAIN members |-> member_row(members[j], list_id)]

\* a faulty variant: the offset does not advance
next_offset_stuck(off) == off

\* offset += count
next_offset(off) == off + PAGE_COUNT

---------------------------------------------------------------------------
(* MailchimpETL.load_data and _create_summary_dashboard.  dataframes_dict is *)
(* the sequence of its items [name, df] in insertion order.  A file is its  *)
(* path and its parts in the order written: the sheets of a workbook, the   *)
(* top-level keys of a JSON document, the one table of a CSV file; a part   *)
(* names the table it was written from ("" for a summary) and its rows.     *)

RECURSIVE sum_int(_, _)
sum_int(rows, col) ==
    IF rows = <<>> THEN 0 ELSE rows[1][col] + sum_int(Tail(rows), col)

RECURSIVE sum_float(_, _)
sum_float(rows, col) ==
    IF rows = <<>> THEN Int2F(0) ELSE FAdd(rows[1][col], sum_float(Tail(rows), col))

mean(rows, col) == FDiv(sum_float(rows, col), Int2F(Len(rows)))

\* f"{x:.2f}", kept as the number it formats
Fmt2(x) == [k |-> "fmt2", x |-> x]

\* 'name' in dataframes_dict, and dataframes_dict['name']
Has(dict, name) == \E i \in DOMAIN dict : dict[i].name = name
Item(dict, name) == dict[CHOOSE i \in DOMAIN dict : dict[i].name = name].df

\* dataframes[name] = d
Put(dict, name, d) ==
    IF Has(dict, name)
    THEN [i \in DOMAIN dict |-> IF dict[i].name = name THEN [name |-> name, df |-> d]
                                ELSE dict[i]]
    ELSE Append(dict, [name |-> name, df |-> d])

\* Series.value_counts(): the count of each value that is not missing
value_counts(rows, col) ==
    [v \in {rows[i][col] : i \in {j \in DOMAIN rows : ~isna(rows[j][col])}} |->
        Cardinality({i \in DOMAIN rows : rows[i][col] = v})]

\* .head(n) of counts in descending order: n values of greatest count
head(counts, n) ==
    IF Cardinality(DOMAIN counts) <= n THEN DOMAIN counts
    ELSE CHOOSE S \in SUBSET DOMAIN counts :
            /\ Cardinality(S) = n
            /\ \A a \in S : \A b \in (DOMAIN counts) \ S : counts[a] >= counts[b]

\* the rows of the summary: the campaign and list metrics in order, and the
\* "Subscribers in <country>" rows
_create_summary_dashboard(dict) ==
    LET camp == IF Has(dict, "campaigns") /\ ~empty(Item(dict, "campaigns"))
                THEN LET rows == Item(dict, "campaigns").rows
                     IN  << [Metric |-> "Total Campaigns", Value |-> IntV(Len(rows))],
                            [Metric |-> "Avg Open Rate (%)",
                             Value |-> Fmt2(FMul(mean(rows, "open_rate"), Int2F(100)))],
                            [Metric |-> "Avg Click Rate (%)",
                             Value |-> Fmt2(FMul(mean(rows, "click_rate"), Int2F(100)))],
                            [Metric |-> "Total Emails Sent",
                             Value |-> IntV(sum_int(rows, "emails_sent"))] >>
                ELSE <<>>
        lsts == IF Has(dict, "lists") /\ ~empty(Item(dict, "lists"))
                THEN LET rows == Item(dict, "lists").rows
                     IN  << [Metric |-> "Total Lists", Value |-> IntV(Len(rows))],
                            [Metric |-> "Total Subscribers",
                             Value |-> IntV(sum_int(rows, "member_count"))],
                            [Metric |-> "Total Unsubscribes",
                             Value |-> IntV(sum_int(rows, "unsubscribe_count"))] >>
                ELSE <<>>
        ctry == IF /\ Has(dict, "members")
                   /\ ~empty(Item(dict, "members"))
                   /\ "country_name" \in Item(dict, "members").columns
                THEN LET counts == value_counts(Item(dict, "members").rows, "country_name")
                     IN  {[country |-> c, Value |-> IntV(counts[c])] :
                             c \in head(counts, TOP_COUNTRIES)}
                ELSE {}
    IN  [rows |-> camp \o lsts, countries |-> ctry]

summary_empty(summary) == summary.rows = <<>> /\ summary.countries = {}
summary_len(summary) == Len(summary.rows) + Cardinality(summary.countries)

\* str.capitalize() on the table names of the model
capitalize(name) ==
    CASE name = "lists" -> "Lists"
      [] name = "campaigns" -> "Campaigns"
      [] name = "members" -> "Members"
      [] name = "events" -> "Events"
      [] name = "members_of_the_quarterly_newsletter"
            -> "Members_of_the_quarterly_newsletter"

\* s[:n] on the capitalised names of the model (only one is longer than 31)
truncate(s, n) ==
    IF s = "Members_of_the_quarterly_newsletter" /\ n = 31
    THEN "Members_of_the_quarterly_newsle"
    ELSE s

sheet_name(name) == truncate(capitalize(name), SHEET_NAME_LIMIT)

Path(base, table, ext) ==
    [dir |-> "output", base |-> base, table |-> table,
     stamp |-> "YYYYMMDD_HHMMSS", ext |-> ext]

Part(name, table, nrows) == [name |-> name, table |-> table, nrows |-> nrows]

File(path, parts) == [path |-> path, parts |-> parts]

\* a faulty variant: every item is written, empty or not
written_items_all(dict) == dict

\* the items of dataframes_dict that load_data writes: the non-empty ones
RECURSIVE written_items(_)
written_items(dict) ==
    IF dict = <<>> THEN <<>>
    ELSE (IF ~empty(dict[1].df) THEN <<dict[1]>> ELSE <<>>) \o written_items(Tail(dict))

\* How leaving the ExcelWriter block can end for the sheets written to it: the
\* openpyxl writer refuses to save a workbook without a sheet in some library
\* versions, and the error is re-raised by load_data; a workbook with a sheet is
\* saved.
save_outcomes(sheets) ==
    IF Len(sheets) = 0 THEN {"saved", "raised"} ELSE {"saved"}

\* load_data(dataframes_dict, output_format), given how saving the workbook ends:
\* whether it raised, the files it wrote and the filename (or list of filenames)
\* it returned
load_data(dict, output_format, save) ==
    LET items == written_items(dict)
        base == "mailchimp_data"
    IN  CASE output_format = "excel" ->
                LET summary == _create_summary_dashboard(dict)
                    sheets == [i \in DOMAIN items |->
                                 Part(sheet_name(items[i].name), items[i].name,
                                      Len(items[i].df.rows))]
                    all == IF ~summary_empty(summary)
                           THEN Append(sheets, Part("Dashboard", "", summary_len(summary)))
                           ELSE sheets
                IN  IF save = "raised" /\ "raised" \in save_outcomes(all)
                    THEN [raised |-> TRUE, files |-> {}, value |-> <<>>]
                    ELSE [raised |-> FALSE,
                          files |-> {File(Path(base, "", "xlsx"), all)},
                          value |-> <<Path(base, "", "xlsx")>>]
          [] output_format = "csv" ->
                [raised |-> FALSE,
                 files |-> {File(Path(base, items[i].name, "csv"),
                                 <<Part(items[i].name, items[i].name,
                                        Len(items[i].df.rows))>>) : i \in DOMAIN items},
                 value |-> [i \in DOMAIN items |-> Path(base, items[i].name, "csv")]]
          [] output_format = "json" ->
                [raised |-> FALSE,
                 files |-> {File(Path(base, "", "json"),
                                 [i \in DOMAIN items |->
                                    Part(items[i].name, items[i].name,
                                         Len(items[i].df.rows))])},
                 value |-> <<Path(base, "", "json")>>]
          \* no branch binds filename: the logging line raises, and it is re-raised
          [] OTHER -> [raised |-> TRUE, files |-> {}, value |-> <<>>]

---------------------------------------------------------------------------
(* GoogleAnalyticsETL.  A report is its headers and rows; a metric value is  *)
(* the decimal string the API sends, [ip, fp]: the digits before and after  *)
(* the point (fp empty when there is no point).  The model carries the      *)
(* dimensions country and date and the four default metrics.                *)

GA_TOP == 10

Numeral(ip, fp) == [k |-> "str", ip |-> ip, fp |-> fp]

RECURSIVE digits_value(_)
digits_value(ds) ==
    IF ds = <<>> THEN 0 ELSE 10 * digits_value(SubSeq(ds, 1, Len(ds) - 1)) + ds[Len(ds)]

RECURSIVE pow10(_)
pow10(n) == IF n = 0 THEN 1 ELSE 10 * pow10(n - 1)

\* int(value) if value != '0' else 0, on a string of digits
int_of(value) == IF value = Numeral(<<0>>, <<>>) THEN 0 ELSE digits_value(value.ip)

\* float(value) if value != '0.0' else 0.0
float_of(value) ==
    IF value = Numeral(<<0>>, <<0>>) THEN Int2F(0)
    ELSE Rat(digits_value(value.ip) * pow10(Len(value.fp)) + digits_value(value.fp),
             pow10(Len(value.fp)))

\* str.strip().str.title() on the country strings of the model
strip_title(c) ==
    CASE c = " russian federation " -> "Russian Federation"
      [] c = "united states" -> "United States"
      [] c = "Ukraine " -> "Ukraine"
      [] OTHER -> c

\* .replace({'Russian Federation': 'Russia', 'United States': 'USA'})
replace_country(c) ==
    CASE c = "Russian Federation" -> "Russia"
      [] c = "United States" -> "USA"
      [] OTHER -> c

\* the row_data built of one report row
ga_row_data(report, row) ==
    LET dims == report.dimension_headers
        mets == report.metric_headers
        key(n) == IF n <= Len(dims) THEN dims[n] ELSE mets[n - Len(dims)]
        val(n) ==
            IF n <= Len(dims) THEN row.dimension_values[n]
            ELSE LET m == mets[n - Len(dims)]
                     v == row.metric_values[n - Len(dims)]
                 IN  IF m \in {"sessions", "totalUsers", "screenPageViews"}
                     THEN IntV(int_of(v))
                     ELSE IF m = "userEngagementDuration" THEN float_of(v)
                     ELSE v
    IN  [c \in {key(n) : n \in 1..(Len(dims) + Len(mets))} |->
            val(CHOOSE n \in 1..(Len(dims) + Len(mets)) : key(n) = c)]

\* df['userEngagementDuration'] / df['sessions'], then fillna(0)
avg_engagement_duration(row) ==
    fillna(FDiv(row.userEngagementDuration, Int2F(row.sessions.v)), Int2F(0))

\* df['date'] = pd.to_datetime(df['date'])
ga_date(d) ==
    IF "date" \in d.columns
    THEN WithCol(d, "date", [i \in DOMAIN d.rows |-> to_datetime(d.rows[i].date)])
    ELSE d

\* df['country'] = df['country'].str.strip().str.title(), then the replacements
ga_country(d) ==
    IF "country" \in d.columns
    THEN WithCol(d, "country",
                 [i \in DOMAIN d.rows |->
                     Str(replace_country(strip_title(d.rows[i].country.s)))])
    ELSE d

ga_avg_engagement(d) ==
    IF "userEngagementDuration" \in d.columns /\ "sessions" \in d.columns
    THEN WithCol(d, "avg_engagement_duration",
                 [i \in DOMAIN d.rows |-> avg_engagement_duration(d.rows[i])])
    ELSE d

\* the rows built of the report's rows
ga_rows(report) ==
    [i \in DOMAIN report.rows |-> ga_row_data(report, report.rows[i])]

\* what GoogleAnalyticsETL.transform_data(response) logs: an info record with
\* the numbers of rows and columns, whatever the number of rows
ga_transform_log(report) == <<Logged("info", "ga")>>

\* GoogleAnalyticsETL.transform_data(response): the DataFrame it returns
ga_transform_data(report) ==
    with_extracted_at(ga_avg_engagement(ga_country(ga_date(DataFrame(ga_rows(report))))))

RECURSIVE sum_where(_, _, _)
sum_where(rows, country, col) ==
    IF rows = <<>> THEN 0
    ELSE (IF rows[1].country = country THEN rows[1][col].v ELSE 0)
         + sum_where(Tail(rows), country, col)

\* _create_summary(df): one row per country, for the GA_TOP countries of most sessions
ga_create_summary(d) ==
    IF "country" \in d.columns
    THEN LET sessions == [c \in {d.rows[i].country : i \in DOMAIN d.rows} |->
                             sum_where(d.rows, c, "sessions")]
         IN  {[country |-> c,
               sessions |-> sessions[c],
               totalUsers |-> sum_where(d.rows, c, "totalUsers"),
               screenPageViews |-> sum_where(d.rows, c, "screenPageViews")] :
                 c \in head(sessions, GA_TOP)}
    ELSE {}

\* GoogleAnalyticsETL.load_data(df, output_format): whether it raised, the files
\* it wrote and the filename it returned
ga_load_data(d, output_format) ==
    LET base == "ga_data"
        table == Part("GA_Data", "ga", Len(d.rows))
    IN  CASE output_format = "csv" ->
                [raised |-> FALSE,
                 files |-> {File(Path(base, "", "csv"), <<table>>)},
                 value |-> <<Path(base, "", "csv")>>]
          [] output_format = "excel" ->
                [raised |-> FALSE,
                 files |-> {File(Path(base, "", "xlsx"),
                                 <<table,
                                   Part("Summary", "", Cardinality(ga_create_summary(d)))>>)},
                 value |-> <<Path(base, "", "xlsx")>>]
          [] output_format = "json" ->
                [raised |-> FALSE,
                 files |-> {File(Path(base, "", "json"), <<table>>)},
                 value |-> <<Path(base, "", "json")>>]
          \* no branch binds filename: the logging line raises, and it is re-raised
          [] OTHER -> [raised |-> TRUE, files |-> {}, value |-> <<>>]

\* the report the analytics API returns when it holds n rows
GACountries == <<" russian federation ", "united states", "Ukraine ">>
GAReport(n) ==
    [dimension_headers |-> <<"country", "date">>,
     metric_headers |-> <<"sessions", "totalUsers", "screenPageViews",
                          "userEngagementDuration">>,
     rows |-> [i \in 1..n |->
        [dimension_values |->
            <<Str(GACountries[((i - 1) % 3) + 1]),
              [k |-> "iso", day |-> i, hour |-> 0, tz |-> FALSE]>>,
         metric_values |->
            <<Numeral(<<i - 1>>, <<>>), Numeral(<<1>>, <<>>), Numeral(<<1, 2>>, <<>>),
              Numeral(<<7>>, <<5>>)>>]]]

---------------------------------------------------------------------------
(* Spec: one run of run_etl of either pipeline *)

Formats == {"csv", "excel", "json"}
SpecificIds == {<<>>, <<2>>, <<2, 1>>}       \* <<>> is None

MailchimpArgs ==
    [pipeline : {"mailchimp"}, include_members : BOOLEAN,
     specific_list_ids : SpecificIds, since_date : {"", "2024-01-01"},
     output_format : Formats]
GAArgs == [pipeline : {"ga"}, output_format : Formats]

NoFrame == [columns |-> {}, rows |-> <<>>]
NoCall == [made |-> FALSE]
NoResult == [kind |-> "none"]
Raised == [kind |-> "raised"]
Returned(v) == [kind |-> "returned", value |-> v]

Init ==
    /\ pc = "run_etl"
    /\ \/ /\ args \in MailchimpArgs
          /\ remote \in [lists : 0..MaxLists, campaigns : 0..MaxCampaigns, rows : {0}]
       \/ /\ args \in GAArgs
          /\ remote \in [lists : {0}, campaigns : {0}, rows : 0..MaxGARows]
    /\ lists_data = <<>>
    /\ campaigns_data = <<>>
    /\ response = <<>>
    /\ list_ids = <<>>
    /\ li = 0
    /\ members_data = <<>>
    /\ offset = 0
    /\ all_members_data = <<>>
    /\ dataframes = <<>>
    /\ trace = <<>>
    /\ lastCall = NoCall
    /\ served = <<>>
    /\ callStart = 0
    /\ calls = <<>>
    /\ extractError = FALSE
    /\ loadCalls = 0
    /\ files = {}
    /\ result = NoResult
    /\ data_type = ""
    /\ raw_data = <<>>
    /\ df = NoFrame
    /\ log = <<>>

\* an exception leaves run_etl: nothing is returned
Abort ==
    /\ pc' = "failed"
    /\ result' = Raised

\* the record kept of an extractor call that returned
Returns(fn, arg, events, value, pages) ==
    [fn |-> fn, arg |-> arg, events |-> events, value |-> value, served |-> pages]

\* lists_data = self.extract_lists(); dataframes['lists'] = self.transform_data(...)
ExtractLists ==
    /\ pc = "run_etl"
    /\ args.pipeline = "mailchimp"
    /\ LET req == Request("lists", 0, [count |-> PAGE_COUNT])
       IN  \E answers \in AnswerSeqs(req) :
             LET r == _make_request(req, answers)
                 out == extract_lists(Call(req, answers, r))
             IN  /\ lastCall' = Call(req, answers, r)
                 /\ trace' = trace \o r.events
                 /\ extractError' = (extractError \/ r.raised)
                 /\ callStart' = Len(trace)
                 /\ IF out.raised
                    THEN /\ Abort
                         /\ UNCHANGED << lists_data, dataframes, calls, log >>
                    ELSE /\ lists_data' = out.value
                         /\ dataframes' =
                              Put(dataframes, "lists", transform_data("lists", out.value))
                         /\ log' = log \o transform_log("lists", out.value)
                         /\ calls' = Append(calls,
                              Returns("extract_lists", 0, r.events, out.value, <<>>))
                         /\ pc' = "extract_campaigns"
                         /\ UNCHANGED result
    /\ UNCHANGED << args, remote, campaigns_data, response, list_ids, li, members_data,
                    offset, all_members_data, served, loadCalls, files,
                    data_type, raw_data, df >>

\* extract_campaigns: the request of the campaign list
ExtractCampaigns ==
    /\ pc = "extract_campaigns"
    /\ LET req == Request("campaigns", 0, campaigns_params(args.since_date))
       IN  \E answers \in AnswerSeqs(req) :
             LET r == _make_request(req, answers)
             IN  /\ lastCall' = Call(req, answers, r)
                 /\ trace' = trace \o r.events
                 /\ extractError' = (extractError \/ r.raised)
                 /\ callStart' = Len(trace)
                 /\ IF r.raised
                    THEN /\ Abort
                         /\ UNCHANGED << response, campaigns_data >>
                    ELSE /\ response' = Get(r.body, "campaigns", <<>>)
                         /\ campaigns_data' = <<>>
                         /\ pc' = "campaign_loop"
                         /\ UNCHANGED result
    /\ UNCHANGED << log, args, remote, lists_data, list_ids, li, members_data, offset,
                    all_members_data, dataframes, served, calls, loadCalls, files,
                    data_type, raw_data, df >>

\* a faulty variant: no delay after a detail request
campaign_pass_no_delay(events) == events

\* the events of one pass of the campaign loop: the detail call, then time.sleep(0.1)
campaign_pass_events(events) == events \o <<SleepEvent(DELAY_SLEEP)>>

\* extract_campaigns: one pass of the loop over the listed campaigns
CampaignDetail ==
    /\ pc = "campaign_loop"
    /\ Len(campaigns_data) < Len(response)
    /\ LET campaign == response[Len(campaigns_data) + 1]
           req == Request("campaigns/{id}", campaign.id, NoParams)
       IN  \E answers \in AnswerSeqs(req) :
             LET r == _make_request(req, answers)
             IN  /\ lastCall' = Call(req, answers, r)
                 /\ extractError' = (extractError \/ r.raised)
                 /\ IF r.raised
                    THEN /\ Abort
                         /\ trace' = trace \o r.events
                         /\ UNCHANGED campaigns_data
                    ELSE /\ campaigns_data' =
                              Append(campaigns_data, campaign_row(campaign, r.body))
                         /\ trace' = trace \o campaign_pass_events(r.events)
                         /\ UNCHANGED << pc, result >>
    /\ UNCHANGED << log, args, remote, lists_data, response, list_ids, li, members_data,
                    offset, all_members_data, dataframes, served, callStart, calls,
                    loadCalls, files, data_type, raw_data, df >>

\* a faulty variant: every extracted list is taken
member_list_ids_all(specific_list_ids, lists) ==
    IF specific_list_ids # <<>> THEN specific_list_ids
    ELSE [i \in 1..Len(lists) |-> lists[i].list_id]

\* the list ids whose members run_etl extracts
member_list_ids(specific_list_ids, lists) ==
    IF specific_list_ids # <<>> THEN specific_list_ids
    ELSE [i \in 1..(IF Len(lists) < DEMO_LISTS THEN Len(lists) ELSE DEMO_LISTS) |->
            lists[i].list_id]

\* extract_campaigns returns; dataframes['campaigns'] = ...; if include_members: ...
CampaignsDone ==
    /\ pc = "campaign_loop"
    /\ Len(campaigns_data) = Len(response)
    /\ dataframes' = Put(dataframes, "campaigns",
                         transform_data("campaigns", campaigns_data))
    /\ log' = log \o transform_log("campaigns", campaigns_data)
    /\ calls' = Append(calls,
          Returns("extract_campaigns", 0, SubSeq(trace, callStart + 1, Len(trace)),
                  campaigns_data, <<>>))
    /\ IF args.include_members
       THEN /\ all_members_data' = <<>>
            /\ list_ids' = member_list_ids(args.specific_list_ids, lists_data)
            /\ li' = 1
            /\ pc' = "members_loop"
       ELSE /\ pc' = "load"
            /\ UNCHANGED << all_members_data, list_ids, li >>
    /\ UNCHANGED << args, remote, lists_data, campaigns_data, response, members_data,
                    offset, trace, lastCall, served, callStart, extractError,
                    loadCalls, files, result, data_type, raw_data, df >>

\* for list_id in list_ids: extract_members(list_id) is called
StartExtractMembers ==
    /\ pc = "members_loop"
    /\ li <= Len(list_ids)
    /\ members_data' = <<>>
    /\ offset' = 0
    /\ served' = <<>>
    /\ callStart' = Len(trace)
    /\ pc' = "member_page"
    /\ UNCHANGED << log, args, remote, lists_data, campaigns_data, response, list_ids, li,
                    all_members_data, dataframes, trace, lastCall, calls,
                    extractError, loadCalls, files, result, data_type, raw_data, df >>

\* extract_members: one pass of the while loop
MemberPage ==
    /\ pc = "member_page"
    /\ LET list_id == list_ids[li]
           req == Request("lists/{id}/members", list_id,
                          members_params(offset, "subscribed"))
       IN  \E answers \in AnswerSeqs(req) :
             LET r == _make_request(req, answers)
                 members == Get(r.body, "members", <<>>)
             IN  /\ lastCall' = Call(req, answers, r)
                 /\ extractError' = (extractError \/ r.raised)
                 /\ IF r.raised
                    THEN /\ Abort
                         /\ trace' = trace \o r.events
                         /\ UNCHANGED << members_data, offset, served, calls,
                                         all_members_data, li >>
                    ELSE IF members = <<>>
                    THEN \* break; return members_data; all_members_data.extend(...)
                         /\ trace' = trace \o r.events
                         /\ served' = Append(served, members)
                         /\ calls' = Append(calls,
                              Returns("extract_members", list_id,
                                      SubSeq(trace', callStart + 1, Len(trace')),
                                      members_data, served'))
                         /\ all_members_data' = all_members_data \o members_data
                         /\ li' = li + 1
                         /\ pc' = "members_loop"
                         /\ UNCHANGED << members_data, offset, result >>
                    ELSE /\ members_data' = append_page(members_data, members, list_id)
                         /\ offset' = next_offset(offset)
                         /\ trace' = trace \o r.events \o <<SleepEvent(DELAY_SLEEP)>>
                         /\ served' = Append(served, members)
                         /\ UNCHANGED << pc, result, calls, all_members_data, li >>
    /\ UNCHANGED << log, args, remote, lists_data, campaigns_data, response, list_ids,
                    dataframes, callStart, loadCalls, files, data_type, raw_data, df >>

\* the loop over list_ids is over: if all_members_data: dataframes['members'] = ...
MembersDone ==
    /\ pc = "members_loop"
    /\ li > Len(list_ids)
    /\ dataframes' = IF all_members_data # <<>>
                     THEN Put(dataframes, "members",
                              transform_data("members", all_members_data))
                     ELSE dataframes
    /\ log' = IF all_members_data # <<>>
              THEN log \o transform_log("members", all_members_data) ELSE log
    /\ pc' = "load"
    /\ UNCHANGED << args, remote, lists_data, campaigns_data, response, list_ids, li,
                    members_data, offset, all_members_data, trace, lastCall, served,
                    callStart, calls, extractError, loadCalls, files, result,
                    data_type, raw_data, df >>

\* filename = self.load_data(dataframes, output_format); return filename
Load ==
    /\ pc = "load"
    /\ args.pipeline = "mailchimp"
    /\ \E save \in {"saved", "raised"} :
       LET out == load_data(dataframes, args.output_format, save)
       IN  /\ loadCalls' = loadCalls + 1
           /\ files' = files \cup out.files
           /\ IF out.raised THEN Abort
              ELSE pc' = "done" /\ result' = Returned(out.value)
    /\ UNCHANGED << log, args, remote, lists_data, campaigns_data, response, list_ids, li,
                    members_data, offset, all_members_data, dataframes, trace,
                    lastCall, served, callStart, calls, extractError,
                    data_type, raw_data, df >>

\* extract_data, given how authentication and the report call end: raised, or
\* the report returned
extract_data(outcome, report) ==
    IF outcome = "ok" THEN [raised |-> FALSE, value |-> report]
    ELSE [raised |-> TRUE, value |-> report]

\* response = self.extract_data(start_date, end_date)
GAExtract ==
    /\ pc = "run_etl"
    /\ args.pipeline = "ga"
    /\ \E outcome \in {"ok", "auth_error", "report_error"} :
         LET out == extract_data(outcome, GAReport(remote.rows))
         IN  /\ extractError' = (extractError \/ outcome # "ok")
             /\ IF out.raised
                THEN Abort /\ UNCHANGED response
                ELSE /\ response' = out.value
                     /\ pc' = "ga_transform"
                     /\ UNCHANGED result
    /\ UNCHANGED << log, args, remote, lists_data, campaigns_data, list_ids, li,
                    members_data, offset, all_members_data, dataframes, trace,
                    lastCall, served, callStart, calls, loadCalls, files,
                    data_type, raw_data, df >>

\* df = self.transform_data(response)
GATransform ==
    /\ pc = "ga_transform"
    /\ df' = ga_transform_data(response)
    /\ log' = log \o ga_transform_log(response)
    /\ pc' = "load"
    /\ UNCHANGED << args, remote, lists_data, campaigns_data, response, list_ids, li,
                    members_data, offset, all_members_data, dataframes, trace,
                    lastCall, served, callStart, calls, extractError, loadCalls,
                    files, result, data_type, raw_data >>

\* filename = self.load_data(df, output_format); return filename
GALoad ==
    /\ pc = "load"
    /\ args.pipeline = "ga"
    /\ LET out == ga_load_data(df, args.output_format)
       IN  /\ loadCalls' = loadCalls + 1
           /\ files' = files \cup out.files
           /\ IF out.raised THEN Abort
              ELSE pc' = "done" /\ result' = Returned(out.value)
    /\ UNCHANGED << log, args, remote, lists_data, campaigns_data, response, list_ids, li,
                    members_data, offset, all_members_data, dataframes, trace,
                    lastCall, served, callStart, calls, extractError,
                    data_type, raw_data, df >>

Next ==
    \/ ExtractLists
    \/ ExtractCampaigns
    \/ CampaignDetail
    \/ CampaignsDone
    \/ StartExtractMembers
    \/ MemberPage
    \/ MembersDone
    \/ Load
    \/ GAExtract
    \/ GATransform
    \/ GALoad

Spec == Init /\ [][Next]_vars

---------------------------------------------------------------------------
(* Properties of a run *)

IsGet(e) == e.ev = "GET"
IsSleep(e) == e.ev = "sleep"

RECURSIVE Concat(_)
Concat(seqs) == IF seqs = <<>> THEN <<>> ELSE Head(seqs) \o Concat(Tail(seqs))

CallsOf(fn) == {i \in DOMAIN calls : calls[i].fn = fn}

\* C1: when the remote answers the first GET of a _make_request call with 429
\* and the repeated GET with 200, the call returns the body sent with the 200,
\* after exactly one 60-second sleep and exactly two GETs of the same endpoint
\* and params; the 429 is not raised.
C1_RateLimitRetry ==
    (/\ lastCall.made
     /\ Len(lastCall.answers) = 2
     /\ lastCall.answers[1].status = 429
     /\ lastCall.answers[2].status = 200)
    => /\ ~lastCall.raised
       /\ lastCall.body = lastCall.answers[2].body
       /\ lastCall.events = << GetEvent(lastCall.req),
                               SleepEvent(RATE_LIMIT_SLEEP),
                               GetEvent(lastCall.req) >>

\* the requests of the pages at offsets 0, 1000, ..., 1000 * (n - 1) of a list
PageRequests(list_id, n) ==
    [p \in 1..n |->
        GetEvent(Request("lists/{id}/members", list_id,
                         [count |-> 1000, offset |-> 1000 * (p - 1),
                          status |-> "subscribed"]))]

MemberIds(pages) == LET all == Concat(pages) IN [i \in DOMAIN all |-> all[i].id]

\* C2: extract_members, on a source that serves k non-empty pages and then an
\* empty one, issues exactly k + 1 page requests, at offsets 0, 1000, ...,
\* 1000 * k, and returns exactly the rows of the k pages in page order; while
\* it runs, every page served so far was requested once, at the next offset,
\* and its rows were appended.
C2_Pagination ==
    /\ \A i \in CallsOf("extract_members") :
         LET c == calls[i]
             k == Len(c.served) - 1
         IN  /\ k >= 0
             /\ c.served[k + 1] = <<>>
             /\ \A p \in 1..k : c.served[p] # <<>>
             /\ SelectSeq(c.events, IsGet) = PageRequests(c.arg, k + 1)
             /\ [j \in DOMAIN c.value |-> c.value[j].member_id] = MemberIds(c.served)
             /\ \A j \in DOMAIN c.value : c.value[j].list_id = c.arg
    /\ pc = "member_page" =>
         /\ offset = 1000 * Len(served)
         /\ SelectSeq(SubSeq(trace, callStart + 1, Len(trace)), IsGet)
                = PageRequests(list_ids[li], Len(served))
         /\ [j \in DOMAIN members_data |-> members_data[j].member_id] = MemberIds(served)

C2_Witness ==
    \E i \in CallsOf("extract_members") :
        /\ Len(calls[i].served) = 4
        /\ Len(SelectSeq(calls[i].events, IsGet)) = 4
        /\ Len(calls[i].value) = 5
        /\ calls[i].events[Len(calls[i].events)].req.params.offset = 3000

\* C3: in both pipelines' run_etl, once an extraction request has failed the
\* run has ended with the exception: load_data is not invoked, no artifact is
\* written and nothing is returned.
C3_ExtractionFailureAborts ==
    extractError =>
        /\ pc = "failed"
        /\ loadCalls = 0
        /\ files = {}
        /\ result = Raised

C3_Witness ==
    /\ extractError
    /\ pc = "failed"
    /\ args.pipeline = "mailchimp"
    /\ lastCall.req.endpoint = "lists/{id}/members"
    /\ lastCall.answers[1].status = 500
    /\ Len(dataframes) = 2
    /\ members_data # <<>>
    /\ files = {}

\* the events of extract_campaigns once m of the listed campaigns are done
CampaignEvents(since_date, m) ==
    << GetEvent(Request("campaigns", 0,
                        IF since_date = "" THEN [count |-> 1000, status |-> "sent"]
                        ELSE [count |-> 1000, status |-> "sent",
                              since_send_time |-> since_date])) >>
    \o Concat([j \in 1..m |->
                 << GetEvent(Request("campaigns/{id}", RemoteCampaign(j).id, NoParams)),
                    SleepEvent(100) >>])

\* C10: extract_campaigns, for a list response of n campaigns, issues the list
\* request and then one detail request campaigns/<id> per listed campaign, in
\* list order, each followed by one 0.1-second sleep: 1 + n requests and n
\* sleeps in all, and it returns n rows in list order.
C10_CampaignDetails ==
    /\ \A i \in CallsOf("extract_campaigns") :
         LET c == calls[i]
             n == remote.campaigns
         IN  /\ c.events = CampaignEvents(args.since_date, n)
             /\ Len(SelectSeq(c.events, IsGet)) = 1 + n
             /\ Len(SelectSeq(c.events, IsSleep)) = n
             /\ Len(c.value) = n
             /\ \A j \in 1..n : c.value[j].campaign_id = RemoteCampaign(j).id
    /\ pc = "campaign_loop" =>
         SubSeq(trace, callStart + 1, Len(trace))
            = CampaignEvents(args.since_date, Len(campaigns_data))

C10_Witness ==
    \E i \in CallsOf("extract_campaigns") :
        /\ remote.campaigns = 2
        /\ Len(calls[i].value) = 2
        /\ Len(calls[i].events) = 5

---------------------------------------------------------------------------
(* SpecTransform: transform_data on every table of a bounded domain *)

OpenRates == {Rat(n, 100) : n \in {0, 10, 15, 25, 35, 100}}

\* rows as extract_campaigns, extract_lists and extract_members build them (the
\* fields transform_data and the loader read; the others are carried unchanged)
CampaignRows ==
    [campaign_id : {1}, send_time : {IsoTime}, emails_sent : {0, 2},
     unique_opens : {0, 1}, unique_clicks : {0, 1},
     open_rate : OpenRates, click_rate : {Rat(1, 10)}]
ListRows ==
    [list_id : {1}, member_count : {0, 1, 4}, unsubscribe_count : {0, 1},
     date_created : {IsoTime}]
CountryCodes == {Str(c) : c \in {"UA", "RU", "US", "GB", "DE", "FR", "XX", ""}} \cup {NA}
MemberRows ==
    [member_id : {1}, list_id : {1}, country_code : CountryCodes,
     timestamp_signup : {IsoTime, NA}, timestamp_opt : {IsoTime}]

RowsOf(dtype) ==
    CASE dtype = "campaigns" -> CampaignRows
      [] dtype = "lists" -> ListRows
      [] dtype = "members" -> MemberRows

Tables(rows, maxlen) == UNION {[1..n -> rows] : n \in 0..maxlen}

\* the variables of the run, at rest
RunIdle ==
    /\ remote = [lists |-> 0, campaigns |-> 0, rows |-> 0]
    /\ lists_data = <<>>
    /\ campaigns_data = <<>>
    /\ response = <<>>
    /\ list_ids = <<>>
    /\ li = 0
    /\ members_data = <<>>
    /\ offset = 0
    /\ all_members_data = <<>>
    /\ trace = <<>>
    /\ lastCall = NoCall
    /\ served = <<>>
    /\ callStart = 0
    /\ calls = <<>>
    /\ extractError = FALSE
    /\ log = <<>>

InitTransform ==
    /\ RunIdle
    /\ args = [pipeline |-> "none"]
    /\ pc = "transform"
    /\ dataframes = <<>>
    /\ loadCalls = 0
    /\ files = {}
    /\ result = NoResult
    /\ data_type \in {"campaigns", "lists", "members"}
    /\ raw_data \in Tables(RowsOf(data_type), MaxRows)
    /\ df = NoFrame

Transform ==
    /\ pc = "transform"
    /\ df' = transform_data(data_type, raw_data)
    /\ raw_data' = raw_data_after(raw_data, df')
    /\ log' = log \o transform_log(data_type, raw_data)
    /\ pc' = "transformed"
    /\ UNCHANGED << args, remote, lists_data, campaigns_data, response, list_ids, li,
                    members_data, offset, all_members_data, dataframes, trace,
                    lastCall, served, callStart, calls, extractError, loadCalls, files,
                    result, data_type >>

\* transform_data applied once more, to the rows of the table it returned
Retransform ==
    /\ pc = "transformed"
    /\ data_type \in {"lists", "campaigns"}
    /\ raw_data' = df.rows
    /\ df' = transform_data(data_type, df.rows)
    /\ log' = log \o transform_log(data_type, df.rows)
    /\ pc' = "retransformed"
    /\ UNCHANGED << args, remote, lists_data, campaigns_data, response, list_ids, li,
                    members_data, offset, all_members_data, dataframes, trace,
                    lastCall, served, callStart, calls, extractError, loadCalls, files,
                    result, data_type >>

NextTransform == Transform \/ Retransform

SpecTransform == InitTransform /\ [][NextTransform]_vars

Transformed(dtype) == pc = "transformed" /\ data_type = dtype

\* C4: every campaign row's engagement_rate is (unique_opens + unique_clicks) /
\* emails_sent * 100 when emails_sent > 0 and 0 when emails_sent = 0, whatever
\* unique_opens and unique_clicks are.
C4_EngagementRate ==
    Transformed("campaigns") =>
        \A i \in DOMAIN raw_data :
            LET r == raw_data[i]
                v == df.rows[i].engagement_rate
            IN  IF r.emails_sent > 0
                THEN v = Rat((r.unique_opens + r.unique_clicks) * 100, r.emails_sent)
                ELSE v = Int2F(0)

\* C5: every list row's unsubscribe_rate is unsubscribe_count / member_count * 100
\* when member_count > 0 and 0 when member_count = 0, whatever unsubscribe_count is.
C5_UnsubscribeRate ==
    Transformed("lists") =>
        \A i \in DOMAIN raw_data :
            LET r == raw_data[i]
                v == df.rows[i].unsubscribe_rate
            IN  IF r.member_count > 0
                THEN v = Rat(r.unsubscribe_count * 100, r.member_count)
                ELSE v = Int2F(0)

\* C6: every campaign row's performance_category follows p = open_rate * 100:
\* Low for 0 <= p < 15, Medium for 15 <= p < 25, High for 25 <= p < 35,
\* Excellent for 35 <= p <= 100.
C6_PerformanceCategory ==
    Transformed("campaigns") =>
        \A i \in DOMAIN raw_data :
            LET r == raw_data[i].open_rate    \* n/d, so p = 100n/d
                c == df.rows[i].performance_category
            IN  /\ (0 <= 100 * r.n /\ 100 * r.n < 15 * r.d) => c = Str("Low")
                /\ (15 * r.d <= 100 * r.n /\ 100 * r.n < 25 * r.d) => c = Str("Medium")
                /\ (25 * r.d <= 100 * r.n /\ 100 * r.n < 35 * r.d) => c = Str("High")
                /\ (35 * r.d <= 100 * r.n /\ 100 * r.n <= 100 * r.d) => c = Str("Excellent")

\* C7: every member row's country_name is the static table's value when
\* country_code is one of its keys (UA, RU, US, GB, DE, FR) and the row's own
\* country_code otherwise.
C7_CountryName ==
    Transformed("members") =>
        \A i \in DOMAIN raw_data :
            LET code == raw_data[i].country_code
                name == df.rows[i].country_name
            IN  /\ code = Str("UA") => name = Str("Ukraine")
                /\ code = Str("RU") => name = Str("Russia")
                /\ code = Str("US") => name = Str("United States")
                /\ code = Str("GB") => name = Str("United Kingdom")
                /\ code = Str("DE") => name = Str("Germany")
                /\ code = Str("FR") => name = Str("France")
                /\ code \notin {Str(c) : c \in {"UA", "RU", "US", "GB", "DE", "FR"}}
                       => name = code

C7_Witness ==
    /\ Transformed("members")
    /\ \E i, j \in DOMAIN raw_data :
        /\ raw_data[i].country_code = Str("XX")
        /\ df.rows[i].country_name = Str("XX")
        /\ raw_data[j].country_code = Str("GB")
        /\ df.rows[j].country_name = Str("United Kingdom")

---------------------------------------------------------------------------
(* SpecLoad: load_data of either pipeline on every mapping of a bounded domain *)

Absent == [absent |-> TRUE]

LoadNames == << "lists", "campaigns", "members", "events",
                "members_of_the_quarterly_newsletter" >>

\* the rows extracted for a name: 0..MaxRows rows of the remote (for members
\* also a row whose country code is missing and one without the location keys)
LoadRows(name) ==
    CASE name = "lists" ->
            {[i \in 1..n |-> list_row(RemoteList(i))] : n \in 0..MaxRows}
      [] name = "campaigns" ->
            {[j \in 1..n |-> campaign_row(RemoteCampaign(j), RemoteCampaignDetail(j))] :
                n \in 0..MaxRows}
      [] OTHER ->
            {[j \in 1..n |-> member_row(RemoteMember(0, j), 1)] : n \in 0..MaxRows}
            \cup {<<member_row(RemoteMember(0, 2), 1)>>,
                  <<[member_id |-> 1, list_id |-> 1]>>}

\* small tables of a name run_etl does not use
OtherFrames ==
    {[columns |-> {"x"}, rows |-> <<>>], [columns |-> {"x"}, rows |-> <<[x |-> 1]>>]}

\* the tables a name of run_etl may be mapped to: what transform_data returns
\* for the rows extracted for it
LoadFrames ==
    [name \in {"lists", "campaigns", "members"} |->
        {transform_data(name, raw) : raw \in LoadRows(name)}]

\* the mapping that holds, in the order of LoadNames, the names f maps to a table
RECURSIVE Mapping(_, _)
Mapping(f, i) ==
    IF i > Len(LoadNames) THEN <<>>
    ELSE (IF f[LoadNames[i]] = Absent THEN <<>>
          ELSE << [name |-> LoadNames[i], df |-> f[LoadNames[i]]] >>)
         \o Mapping(f, i + 1)

Range(seq) == {seq[i] : i \in DOMAIN seq}

InitLoad ==
    /\ RunIdle
    /\ pc = "load_data"
    /\ \/ /\ \E frames \in {LoadFrames} :
             \E l \in frames["lists"] \cup {Absent},
                c \in frames["campaigns"] \cup {Absent},
                m \in frames["members"] \cup {Absent},
                e \in OtherFrames \cup {Absent},
                q \in OtherFrames \cup {Absent} :
                dataframes = Mapping([n \in Range(LoadNames) |->
                    CASE n = "lists" -> l
                      [] n = "campaigns" -> c
                      [] n = "members" -> m
                      [] n = "events" -> e
                      [] OTHER -> q], 1)
          /\ \E fmt \in Formats \cup {"xml"} :
                args = [pipeline |-> "mailchimp", output_format |-> fmt]
          /\ df = NoFrame
       \/ /\ \E fmt \in Formats \cup {"xml"} :
                args = [pipeline |-> "ga", output_format |-> fmt]
          /\ dataframes = <<>>
          /\ df \in {ga_transform_data(GAReport(n)) : n \in 0..MaxGARows}
    /\ loadCalls = 0
    /\ files = {}
    /\ result = NoResult
    /\ data_type = ""
    /\ raw_data = <<>>

\* MailchimpETL.load_data(dataframes_dict, output_format)
LoadMailchimp ==
    /\ pc = "load_data"
    /\ args.pipeline = "mailchimp"
    /\ \E save \in {"saved", "raised"} :
       LET out == load_data(dataframes, args.output_format, save)
       IN  /\ loadCalls' = loadCalls + 1
           /\ files' = files \cup out.files
           /\ IF out.raised THEN pc' = "failed" /\ result' = Raised
              ELSE pc' = "loaded" /\ result' = Returned(out.value)
    /\ UNCHANGED << log, args, remote, lists_data, campaigns_data, response, list_ids, li,
                    members_data, offset, all_members_data, dataframes, trace,
                    lastCall, served, callStart, calls, extractError,
                    data_type, raw_data, df >>

\* GoogleAnalyticsETL.load_data(df, output_format)
LoadGA ==
    /\ pc = "load_data"
    /\ args.pipeline = "ga"
    /\ LET out == ga_load_data(df, args.output_format)
       IN  /\ loadCalls' = loadCalls + 1
           /\ files' = files \cup out.files
           /\ IF out.raised THEN pc' = "failed" /\ result' = Raised
              ELSE pc' = "loaded" /\ result' = Returned(out.value)
    /\ UNCHANGED << log, args, remote, lists_data, campaigns_data, response, list_ids, li,
                    members_data, offset, all_members_data, dataframes, trace,
                    lastCall, served, callStart, calls, extractError,
                    data_type, raw_data, df >>

NextLoad == LoadMailchimp \/ LoadGA

SpecLoad == InitLoad /\ [][NextLoad]_vars

LoadedWorkbook ==
    pc = "loaded" /\ args.pipeline = "mailchimp" /\ args.output_format = "excel"

\* the workbook written: the names of its sheets, in order
SheetNames ==
    LET wb == CHOOSE f \in files : f.path.ext = "xlsx"
    IN  [i \in DOMAIN wb.parts |-> wb.parts[i].name]

NonEmptyNames(dict) ==
    SelectSeq([i \in DOMAIN dict |-> IF Len(dict[i].df.rows) > 0 /\ dict[i].df.columns # {}
                                     THEN dict[i].name ELSE ""],
              LAMBDA n : n # "")

NonEmptyTable(dict, name) ==
    \E i \in DOMAIN dict : dict[i].name = name /\ Len(dict[i].df.rows) > 0

\* C8 as stated: an 'excel' load writes a sheet for exactly the non-empty tables,
\* named by the capitalised table name, plus the Dashboard sheet.
C8_SheetsAndDashboard ==
    LoadedWorkbook =>
        LET names == NonEmptyNames(dataframes)
        IN  SheetNames = [i \in DOMAIN names |-> capitalize(names[i])] \o <<"Dashboard">>

\* C8, amended: an 'excel' load writes one sheet per non-empty table, in mapping
\* order, named by the capitalised table name cut to 31 characters, and then the
\* Dashboard sheet exactly when the summary has a row: when campaigns or lists
\* is a non-empty table of the mapping, or members is one with a country_name
\* that is not missing.
C8_SheetsAndDashboardWhenSummary ==
    LoadedWorkbook =>
        LET names == NonEmptyNames(dataframes)
            tables == [i \in DOMAIN names |->
                         IF names[i] = "members_of_the_quarterly_newsletter"
                         THEN "Members_of_the_quarterly_newsle"
                         ELSE capitalize(names[i])]
            dashboard ==
                \/ NonEmptyTable(dataframes, "campaigns")
                \/ NonEmptyTable(dataframes, "lists")
                \/ \E i \in DOMAIN dataframes :
                     /\ dataframes[i].name = "members"
                     /\ "country_name" \in dataframes[i].df.columns
                     /\ \E j \in DOMAIN dataframes[i].df.rows :
                            dataframes[i].df.rows[j].country_name # NA
        IN  /\ Cardinality(files) = 1
            /\ SheetNames = tables \o (IF dashboard THEN <<"Dashboard">> ELSE <<>>)

C8_Witness ==
    /\ LoadedWorkbook
    /\ Len(dataframes) = 2
    /\ dataframes[1].name = "lists" /\ Len(dataframes[1].df.rows) = 0
    /\ dataframes[2].name = "campaigns" /\ Len(dataframes[2].df.rows) > 0
    /\ SheetNames = <<"Campaigns", "Dashboard">>

\* C9: in both pipelines' load_data and for each format, no artifact is emitted
\* for a table of zero rows: no CSV file, no workbook sheet, no JSON file or key.
C9_NoArtifactForEmptyTable ==
    pc = "loaded" =>
        \A f \in files : \A i \in DOMAIN f.parts :
            f.parts[i].table # "" => f.parts[i].nrows > 0

---------------------------------------------------------------------------
(* SpecPaged: the list and campaign extraction of run_etl against a source   *)
(* that holds up to a page of entities and more                             *)

\* the numbers of entities of one type the source holds: none, one, a full page,
\* and up to MaxBeyond more than a page
SourceSizes == {0, 1, PAGE_COUNT} \cup {PAGE_COUNT + k : k \in 1..MaxBeyond}

InitPaged ==
    /\ pc = "run_etl"
    /\ args = [pipeline |-> "mailchimp", include_members |-> FALSE,
               specific_list_ids |-> <<>>, since_date |-> "", output_format |-> "csv"]
    /\ \E n \in SourceSizes :
          \/ remote = [lists |-> n, campaigns |-> 0, rows |-> 0]
          \/ remote = [lists |-> 0, campaigns |-> n, rows |-> 0]
    /\ lists_data = <<>>
    /\ campaigns_data = <<>>
    /\ response = <<>>
    /\ list_ids = <<>>
    /\ li = 0
    /\ members_data = <<>>
    /\ offset = 0
    /\ all_members_data = <<>>
    /\ dataframes = <<>>
    /\ trace = <<>>
    /\ lastCall = NoCall
    /\ served = <<>>
    /\ callStart = 0
    /\ calls = <<>>
    /\ extractError = FALSE
    /\ loadCalls = 0
    /\ files = {}
    /\ result = NoResult
    /\ data_type = ""
    /\ raw_data = <<>>
    /\ df = NoFrame
    /\ log = <<>>

NextPaged ==
    \/ ExtractLists
    \/ ExtractCampaigns
    \/ CampaignDetail
    \/ CampaignsDone

SpecPaged == InitPaged /\ [][NextPaged]_vars

\* C11: extract_lists and extract_campaigns fetch page after page until a page
\* is empty, so that each returns every entity the source holds, also when the
\* source holds more than 1000 of them.
C11_PagedFetch ==
    /\ \A i \in CallsOf("extract_lists") : Len(calls[i].value) = remote.lists
    /\ \A i \in CallsOf("extract_campaigns") : Len(calls[i].value) = remote.campaigns

---------------------------------------------------------------------------
(* Frame, empty input and repetition of the transforms *)

\* the columns transform_data derives for a data type, whatever the input columns
DerivedColumns(dtype) ==
    {"extracted_at", "data_source"}
    \cup (CASE dtype = "campaigns" -> {"engagement_rate", "performance_category"}
            [] dtype = "lists" -> {"unsubscribe_rate"}
            [] OTHER -> {})

C13_EmptyInputWarns ==
    /\ (args.pipeline = "mailchimp" /\ Has(dataframes, "lists") /\ lists_data = <<>>) =>
            /\ Len(Item(dataframes, "lists").rows) = 0
            /\ log[1] = Logged("warning", "lists")
    /\ (args.pipeline = "ga" /\ pc = "load" /\ Len(response.rows) = 0) =>
            /\ Len(df.rows) = 0
            /\ result # Raised
            /\ \E i \in DOMAIN log : log[i].level = "warning"

\* C14: every row of the table GoogleAnalyticsETL.transform_data returns has
\* avg_engagement_duration = userEngagementDuration / sessions when sessions > 0
\* and 0 when sessions = 0, whatever userEngagementDuration is.
C14_AvgEngagementDuration ==
    (args.pipeline = "ga" /\ pc = "load") =>
        \A i \in DOMAIN df.rows :
            LET r == df.rows[i]
            IN  IF r.sessions.v > 0
                THEN r.avg_engagement_duration =
                        FDiv(r.userEngagementDuration, Int2F(r.sessions.v))
                ELSE r.avg_engagement_duration = Int2F(0)

\* C15: transform_data applied to the rows of a table it returned gives, row by
\* row, the unsubscribe_rate of a lists table and the engagement_rate and
\* performance_category of a campaigns table that the rows already hold.
C15_TransformIdempotent ==
    pc = "retransformed" =>
        /\ Len(df.rows) = Len(raw_data)
        /\ \A i \in DOMAIN raw_data :
              IF data_type = "lists"
              THEN df.rows[i].unsubscribe_rate = raw_data[i].unsubscribe_rate
              ELSE /\ df.rows[i].engagement_rate = raw_data[i].engagement_rate
                   /\ df.rows[i].performance_category = raw_data[i].performance_category

C15_Witness ==
    /\ pc = "retransformed"
    /\ data_type = "lists"
    /\ Len(raw_data) = 2
    /\ IsNum(raw_data[1].unsubscribe_rate)
    /\ raw_data[1].unsubscribe_rate # Int2F(0)
    /\ df.rows[1].unsubscribe_rate = raw_data[1].unsubscribe_rate

---------------------------------------------------------------------------
(* The stages of MailchimpETL.run_etl *)

\* the stage a GET belongs to
StageOf(endpoint) ==
    CASE endpoint = "lists" -> 1
      [] endpoint \in {"campaigns", "campaigns/{id}"} -> 2
      [] endpoint = "lists/{id}/members" -> 3
      [] OTHER -> 0

\* the ids whose members the run is to extract
MemberListIds ==
    IF args.specific_list_ids # <<>> THEN args.specific_list_ids
    ELSE [i \in 1..(IF Len(lists_data) < 3 THEN Len(lists_data) ELSE 3) |->
            lists_data[i].list_id]

\* C16: in MailchimpETL.run_etl the GETs go stage by stage (lists, campaigns,
\* members), the extractors return in that order, and load_data is invoked
\* once, after them; members are requested only if include_members, list by
\* list for the ids of specific_list_ids when it is non-empty and else for the
\* first 3 extracted lists at most; and the mapping given to the loader has a
\* 'members' table only when a member row was extracted.
C16_StageOrder ==
    args.pipeline = "mailchimp" =>
        LET n == Len(calls)
            gets == SelectSeq(trace, IsGet)
        IN  /\ \A i, j \in DOMAIN gets :
                  i < j => StageOf(gets[i].req.endpoint) <= StageOf(gets[j].req.endpoint)
            /\ n >= 1 => calls[1].fn = "extract_lists"
            /\ n >= 2 => calls[2].fn = "extract_campaigns"
            /\ \A k \in 3..n :
                  /\ calls[k].fn = "extract_members"
                  /\ k - 2 <= Len(MemberListIds)
                  /\ calls[k].arg = MemberListIds[k - 2]
            /\ \A i \in DOMAIN gets :
                  StageOf(gets[i].req.endpoint) = 3 =>
                      /\ args.include_members
                      /\ n >= 2
                      /\ \E k \in DOMAIN MemberListIds :
                            k <= n - 1 /\ gets[i].req.id = MemberListIds[k]
            /\ loadCalls <= 1
            /\ loadCalls = 1 =>
                  /\ pc \in {"done", "failed"}
                  /\ n = 2 + (IF args.include_members THEN Len(MemberListIds) ELSE 0)
            /\ pc = "done" => loadCalls = 1
            /\ (pc \in {"load", "done"} /\ Has(dataframes, "members")) =>
                  all_members_data # <<>>

C16_Witness ==
    /\ args.pipeline = "mailchimp"
    /\ args.include_members
    /\ args.specific_list_ids = <<>>
    /\ remote.lists = 4
    /\ pc = "done"
    /\ loadCalls = 1
    /\ Len(calls) = 5
    /\ [k \in 1..3 |-> calls[k + 2].arg] = <<1, 2, 3>>
    /\ Has(dataframes, "members")

====
